---------------------------- MODULE Spec2Model ----------------------------
(***************************************************************************)
(* Order ledger of the prediction-market simulator.                        *)
(*                                                                         *)
(* Two ledgers exist in the repository and are modelled side by side:      *)
(*   - the browser ledger kept in localStorage by the useOrders hook       *)
(*     (src/hooks/useOrders.ts): variables storage, lastUpdated, orders,   *)
(*     summary, ret, clock.  A call of the hook is synchronous, so each    *)
(*     call is one action.  The hook's display states loading and error    *)
(*     are not modelled: the error a call throws is recorded in            *)
(*     ret.status;                                                         *)
(*   - the server ledger kept in data/orders.json by the API routes        *)
(*     (src/app/api/orders/...): variables file, req, acked.  A route      *)
(*     handler awaits its read and its write, so a request is two steps.   *)
(* The older usePortfolio hook (src/unnamed/part_000) is modelled apart:   *)
(* variables portfolio (the latest React state), rendered (the state the   *)
(* closures of the last render captured) and portfolioItem.                *)
(*                                                                         *)
(* Money.  The code computes in IEEE doubles; the model computes in exact  *)
(* arithmetic.  Prices are multiples of 1/PriceScale of a currency unit    *)
(* and every amount of money is held in that unit (so 10,000 currency      *)
(* units are STARTING_BALANCE * PriceScale).  The product                  *)
(* (totalCost / shares) * n is computed as (totalCost * n) \div shares;    *)
(* C8_SellAccounting states that this division is exact wherever the walk  *)
(* performs it, so the model introduces no rounding of its own.            *)
(***************************************************************************)
EXTENDS Integers, Sequences, FiniteSets, TLC

(* ------------------------------ bounds -------------------------------- *)

\* prices are multiples of 1/PriceScale
PriceScale == 10
\* a small buy is for Lot shares
Lot == 100
\* a lot large enough to exhaust the balance and to trip the sanity check
BigLot == 13000
\* the ledger holds at most MaxOrders orders
MaxOrders == 3
\* the server answers at most MaxSales sell requests for one order with success
MaxSales == 2

(* --------------------------- program constants ------------------------ *)

STARTING_BALANCE == 10000

(* ------------------------------ input sets ---------------------------- *)

\* the calls of placeOrder: <<marketId, outcome, action, shares, price>>,
\* at 0.40, 0.70 and 0.60 of a currency unit
PlaceIntents ==
    { <<"m1", "Yes", "buy", Lot, 4>>,
      <<"m1", "Yes", "buy", Lot, 7>>,
      <<"m1", "No", "buy", Lot, 7>>,
      <<"m1", "Yes", "buy", BigLot, 4>>,
      <<"m1", "Yes", "sell", Lot, 6>> }

\* the quantities and the price sellOrder is called with
SellVals == {1, Lot, (3 * Lot) \div 2, BigLot}
SellPrices == {6}

(* ------------------------------ helpers ------------------------------- *)

RECURSIVE Sum(_)
Sum(s) == IF s = <<>> THEN 0 ELSE Head(s) + Sum(Tail(s))

\* Array.prototype.reduce((sum, o) => sum + F(o), 0)
SumSeq(s, F(_)) == Sum([i \in 1..Len(s) |-> F(s[i])])

Min(a, b) == IF a <= b THEN a ELSE b

Abs(a) == IF a < 0 THEN -a ELSE a

RECURSIVE GCD(_, _)
GCD(a, b) == IF b = 0 THEN a ELSE GCD(b, a % b)

\* the exact value of (n / d) * 100 as a reduced fraction <<numerator, denominator>>
Percentage(n, d) ==
    LET g == GCD(Abs(n * 100), Abs(d))
    IN  <<(n * 100) \div g, d \div g>>

Zero == <<0, 1>>

isBuy(o) == o.action = "buy"
isSell(o) == o.action = "sell"
isOpenBuy(o) == o.action = "buy" /\ o.shares > 0
sameInstrument(o, marketId, outcome) == o.marketId = marketId /\ o.outcome = outcome

getTotalCost(o) == o.totalCost
getShares(o) == o.shares
\* (order.pnl || 0)
getPnl(o) == IF "pnl" \in DOMAIN o THEN o.pnl ELSE 0
\* (order.currentValue || 0)
getCurrentValue(o) == IF "currentValue" \in DOMAIN o THEN o.currentValue ELSE 0

(* ------------------------------ state --------------------------------- *)

VARIABLES
    blob,         \* what localStorage['polymarket-orders'] holds: see BlobKinds
    storage,      \* localStorage['polymarket-orders'].orders
    lastUpdated,  \* localStorage['polymarket-orders'].lastUpdated
    orders,       \* React state of the hook: orders
    summary,      \* React state of the hook: summary
    ret,          \* what the last call of the hook did: [op, status, saved]
    clock,        \* Date.now()
    file,         \* data/orders.json: the orders of the server's order book
    req,          \* the route handlers in progress: what each has read and been sent
    acked,        \* the success responses sent: ids of orders placed and of orders sold,
                  \* the shares of each buy accepted and the shares reported sold of each
    portfolio,    \* usePortfolio: the latest state, every queued updater applied
    rendered,     \* usePortfolio: the portfolio of the last render, which the
                  \* closures of buyShares and sellShares read
    portfolioItem \* localStorage['polymarket_simulator_portfolio']

hookVars == <<blob, storage, lastUpdated, orders, summary, ret>>

apiVars == <<file, req, acked>>

portfolioVars == <<portfolio, rendered, portfolioItem>>

vars == <<blob, storage, lastUpdated, orders, summary, ret, clock, file, req, acked,
          portfolio, rendered, portfolioItem>>

\* localStorage.getItem(STORAGE_KEY) of usePortfolio returning null
NoItem == <<>>

INITIAL_BALANCE == 1000

\* the initial value of useState<Portfolio> and the portfolio of resetPortfolio
emptyPortfolio ==
    [starting_balance |-> INITIAL_BALANCE * PriceScale,
     current_balance |-> INITIAL_BALANCE * PriceScale,
     total_invested |-> 0,
     current_portfolio_value |-> 0,
     total_profit_loss |-> 0,
     total_profit_loss_percentage |-> Zero,
     positions |-> <<>>,
     trade_history |-> <<>>]

\* localStorage.getItem(STORAGE_KEY) is null ("none"), the JSON of the order
\* book whose orders are storage ("orderBook"), a text JSON.parse rejects
\* ("garbage"), or the JSON of a value that is not an order book, such as
\* null ("notAnOrderBook")
BlobKinds == {"none", "orderBook", "garbage", "notAnOrderBook"}

\* getOrdersFromStorage(): JSON.parse(stored) if an item is stored and parses,
\* else the empty order book; the orders of what it returns
getOrdersFromStorage == IF blob = "orderBook" THEN storage ELSE <<>>

\* what getOrdersFromStorage returns has no orders: reading them is a TypeError
ordersUnreadable == blob = "notAnOrderBook"

emptySummary ==
    [totalOrders |-> 0, totalInvested |-> 0, totalCurrentValue |-> 0, totalPnl |-> 0,
     totalPnlPercentage |-> Zero, totalSellProceeds |-> 0, realizedPnl |-> 0]

(* --------------------------- derived amounts -------------------------- *)

\* openBuys.reduce((sum, order) => sum + order.totalCost, 0)
totalInvestedOf(book) == SumSeq(SelectSeq(book, isOpenBuy), getTotalCost)

\* orders.filter(o => o.action === 'sell').reduce((sum, order) => sum + (order.pnl || 0), 0)
realizedPnlOf(book) == SumSeq(SelectSeq(book, isSell), getPnl)

\* STARTING_BALANCE - totalInvested + realizedPnl, in price units
currentBalanceOf(book) ==
    STARTING_BALANCE * PriceScale - totalInvestedOf(book) + realizedPnlOf(book)

(* ------------------------------ placeOrder ---------------------------- *)

\* currentPositionOf counting the open buys only, sell orders not subtracted
currentPositionOfOpenBuys(book, marketId, outcome) ==
    LET open(o) == sameInstrument(o, marketId, outcome) /\ isOpenBuy(o)
    IN  SumSeq(SelectSeq(book, open), getShares)

\* the net position placeOrder validates a sell against: buys add, sells subtract
currentPositionOf(book, marketId, outcome) ==
    LET inst(o) == sameInstrument(o, marketId, outcome)
        signed(o) == IF o.action = "buy" THEN o.shares ELSE -o.shares
    IN  SumSeq(SelectSeq(book, inst), signed)

\* newOrder with the snapshot left at zero until the first marking to market
newOrderUnmarked(marketId, outcome, action, shares, price, t, r) ==
    [id |-> <<t, r>>, marketId |-> marketId, outcome |-> outcome, action |-> action,
     shares |-> shares, price |-> price, totalCost |-> shares * price, timestamp |-> t,
     currentPrice |-> 0, currentValue |-> 0, pnl |-> 0 - shares * price,
     pnlPercentage |-> IF shares * price > 0
                       THEN Percentage(0 - shares * price, shares * price) ELSE Zero]

newOrder(marketId, outcome, action, shares, price, t, r) ==
    [id |-> <<t, r>>, marketId |-> marketId, outcome |-> outcome, action |-> action,
     shares |-> shares, price |-> price, totalCost |-> shares * price, timestamp |-> t,
     currentPrice |-> price, currentValue |-> shares * price, pnl |-> 0,
     pnlPercentage |-> Zero]

\* the summary placeOrder and loadOrders publish: every buy counts, sells read as 0
summaryAfterPlace(book) ==
    LET buys == SelectSeq(book, isBuy)
        inv == SumSeq(buys, getTotalCost)
        val == SumSeq(buys, getCurrentValue)
    IN  [totalOrders |-> Len(SelectSeq(book, isOpenBuy)),
         totalInvested |-> inv,
         totalCurrentValue |-> val,
         totalPnl |-> val - inv,
         totalPnlPercentage |-> IF inv > 0 THEN Percentage(val - inv, inv) ELSE Zero,
         totalSellProceeds |-> 0,
         realizedPnl |-> 0]

\* placeOrderStatus with the buy checked against the starting balance alone
placeOrderStatusIgnoringInvested(book, marketId, outcome, action, shares, price) ==
    IF action = "buy" /\ shares * price > STARTING_BALANCE * PriceScale
    THEN "InsufficientBalance"
    ELSE IF action = "sell" /\ currentPositionOf(book, marketId, outcome) < shares
    THEN "InsufficientShares"
    ELSE "ok"

\* the validation of placeOrder: "ok" or the error it throws
placeOrderStatus(book, marketId, outcome, action, shares, price) ==
    IF action = "buy" /\ shares * price > currentBalanceOf(book)
    THEN "InsufficientBalance"
    ELSE IF action = "sell" /\ currentPositionOf(book, marketId, outcome) < shares
    THEN "InsufficientShares"
    ELSE "ok"

\* saveOrdersToStorage followed by getOrdersFromStorage: what the reload sees
savedThenLoaded(old, new, writeOk) == IF writeOk THEN new ELSE old

\* placeOrder closing shares as it records a sell: the first open buy of the
\* instrument gives up the shares sold, as far as it has them
placeOrderConsumingBuys(marketId, outcome, action, shares, price, t, r, writeOk) ==
    LET orderBook == getOrdersFromStorage
        status == IF ordersUnreadable THEN "TypeError"
                  ELSE placeOrderStatus(orderBook, marketId, outcome, action, shares, price)
        open == {i \in 1..Len(orderBook) :
                    isOpenBuy(orderBook[i]) /\ sameInstrument(orderBook[i], marketId, outcome)}
        consumed == [i \in 1..Len(orderBook) |->
                        IF action = "sell" /\ i \in open /\ \A j \in open : i <= j
                        THEN [orderBook[i] EXCEPT !.shares = @ - Min(@, shares)]
                        ELSE orderBook[i]]
        pushed == Append(consumed, newOrder(marketId, outcome, action, shares, price, t, r))
        fresh == savedThenLoaded(orderBook, pushed, writeOk)
    IN  IF status # "ok"
        THEN /\ ret' = [op |-> "placeOrder", status |-> status, saved |-> FALSE]
             /\ UNCHANGED <<blob, storage, lastUpdated, orders, summary, clock, apiVars, portfolioVars>>
        ELSE /\ Len(orderBook) < MaxOrders
             /\ blob' = IF writeOk THEN "orderBook" ELSE blob
             /\ storage' = fresh
             /\ lastUpdated' = IF writeOk THEN t ELSE lastUpdated
             /\ orders' = fresh
             /\ summary' = summaryAfterPlace(fresh)
             /\ ret' = [op |-> "placeOrder", status |-> "ok", saved |-> writeOk]
             /\ clock' = t
             /\ UNCHANGED <<apiVars, portfolioVars>>

placeOrder(marketId, outcome, action, shares, price, t, r, writeOk) ==
    LET orderBook == getOrdersFromStorage
        status == IF ordersUnreadable THEN "TypeError"
                  ELSE placeOrderStatus(orderBook, marketId, outcome, action, shares, price)
        pushed == Append(orderBook, newOrder(marketId, outcome, action, shares, price, t, r))
        fresh == savedThenLoaded(orderBook, pushed, writeOk)
    IN  IF status # "ok"
        THEN /\ ret' = [op |-> "placeOrder", status |-> status, saved |-> FALSE]
             /\ UNCHANGED <<blob, storage, lastUpdated, orders, summary, clock, apiVars, portfolioVars>>
        ELSE /\ Len(orderBook) < MaxOrders
             /\ blob' = IF writeOk THEN "orderBook" ELSE blob
             /\ storage' = fresh
             /\ lastUpdated' = IF writeOk THEN t ELSE lastUpdated
             /\ orders' = fresh
             /\ summary' = summaryAfterPlace(fresh)
             /\ ret' = [op |-> "placeOrder", status |-> "ok", saved |-> writeOk]
             /\ clock' = t
             /\ UNCHANGED <<apiVars, portfolioVars>>

(* ------------------------------ sellOrder ----------------------------- *)

\* findIndex answering with the last order when no order has the id
findIndexOrLast(book, orderId) ==
    IF \E i \in 1..Len(book) : book[i].id = orderId
    THEN CHOOSE i \in 1..Len(book) :
            /\ book[i].id = orderId
            /\ \A j \in 1..(i - 1) : book[j].id # orderId
    ELSE Len(book)

\* orders.findIndex(order => order.id === orderId): 0 stands for -1
findIndex(book, orderId) ==
    IF \E i \in 1..Len(book) : book[i].id = orderId
    THEN CHOOSE i \in 1..Len(book) :
            /\ book[i].id = orderId
            /\ \A j \in 1..(i - 1) : book[j].id # orderId
    ELSE 0

\* the buys the pre-check counts and the walk takes from
isOpenBuyOf(o, order) ==
    o.action = "buy" /\ o.marketId = order.marketId /\ o.outcome = order.outcome /\ o.shares > 0

\* totalOpenSharesOf counting the open buys of every instrument
totalOpenSharesOfAnyInstrument(book, order) ==
    SumSeq(SelectSeq(book, isOpenBuy), getShares)

totalOpenSharesOf(book, order) ==
    LET open(o) == isOpenBuyOf(o, order)
    IN  SumSeq(SelectSeq(book, open), getShares)

\* sellFromThisOrder without the Math.min: all that is left is taken from this buy
sellFromThisOrderUnclamped(buyOrder, sharesLeftToSell) == sharesLeftToSell

\* Math.min(buyOrder.shares, sharesLeftToSell)
sellFromThisOrder(buyOrder, sharesLeftToSell) == Min(buyOrder.shares, sharesLeftToSell)

\* costPerShare * sellFromThisOrder, with costPerShare = totalCost / shares
costOfShares(buyOrder, n) == (buyOrder.totalCost * n) \div buyOrder.shares

\* consume crediting the buy instead of debiting it
consumeCrediting(buyOrder, n) ==
    [buyOrder EXCEPT !.shares = @ + n, !.totalCost = @ + costOfShares(buyOrder, n)]

\* one iteration of the walk applied to orders[i]
consume(buyOrder, n) ==
    [buyOrder EXCEPT !.shares = @ - n, !.totalCost = @ - costOfShares(buyOrder, n)]

RECURSIVE fifoWalkNewestFirst(_, _, _, _, _)
\* fifoWalk taking from the newest buy first: for (let i = length - 1; i >= 0; i--)
fifoWalkNewestFirst(book, i, order, sharesLeftToSell, costBasis) ==
    LET k == Len(book) + 1 - i
    IN  IF ~(i <= Len(book) /\ sharesLeftToSell > 0)
        THEN [orders |-> book, sharesLeftToSell |-> sharesLeftToSell, costBasis |-> costBasis]
        ELSE IF isOpenBuyOf(book[k], order)
        THEN LET n == sellFromThisOrder(book[k], sharesLeftToSell)
             IN  fifoWalkNewestFirst([book EXCEPT ![k] = consume(book[k], n)], i + 1, order,
                                     sharesLeftToSell - n, costBasis + costOfShares(book[k], n))
        ELSE fifoWalkNewestFirst(book, i + 1, order, sharesLeftToSell, costBasis)

RECURSIVE fifoWalk(_, _, _, _, _)
\* for (let i = 0; i < orders.length && sharesLeftToSell > 0; i++) { ... }
fifoWalk(book, i, order, sharesLeftToSell, costBasis) ==
    IF ~(i <= Len(book) /\ sharesLeftToSell > 0)
    THEN [orders |-> book, sharesLeftToSell |-> sharesLeftToSell, costBasis |-> costBasis]
    ELSE IF isOpenBuyOf(book[i], order)
    THEN LET n == sellFromThisOrder(book[i], sharesLeftToSell)
         IN  fifoWalk([book EXCEPT ![i] = consume(book[i], n)], i + 1, order,
                      sharesLeftToSell - n, costBasis + costOfShares(book[i], n))
    ELSE fifoWalk(book, i + 1, order, sharesLeftToSell, costBasis)

\* pruneClosed keeping every order, the buys consumed in full too
pruneNothing(book) == book

\* orders.filter(o => o.action !== 'buy' || o.shares > 0)
pruneClosed(book) == LET keep(o) == o.action # "buy" \/ o.shares > 0 IN SelectSeq(book, keep)

\* newSellOrder with the referenced order's whole cost as cost basis (as the
\* server's sell route computes its profit)
newSellOrderWholeCost(order, sharesToSell, currentPrice, costBasis, t, r) ==
    LET currentValue == sharesToSell * currentPrice
        pnl == currentValue - order.totalCost
    IN  [id |-> <<t, r>>, marketId |-> order.marketId, outcome |-> order.outcome,
         action |-> "sell", shares |-> sharesToSell, price |-> currentPrice,
         totalCost |-> currentValue, timestamp |-> t, currentPrice |-> currentPrice,
         currentValue |-> currentValue, pnl |-> pnl,
         pnlPercentage |-> IF order.totalCost > 0 THEN Percentage(pnl, order.totalCost) ELSE Zero]

newSellOrder(order, sharesToSell, currentPrice, costBasis, t, r) ==
    LET currentValue == sharesToSell * currentPrice
        pnl == currentValue - costBasis
    IN  [id |-> <<t, r>>, marketId |-> order.marketId, outcome |-> order.outcome,
         action |-> "sell", shares |-> sharesToSell, price |-> currentPrice,
         totalCost |-> currentValue, timestamp |-> t, currentPrice |-> currentPrice,
         currentValue |-> currentValue, pnl |-> pnl,
         pnlPercentage |-> IF costBasis > 0 THEN Percentage(pnl, costBasis) ELSE Zero]

\* the summary sellOrder and updatePnl publish
summaryOf(book) ==
    LET openBuys == SelectSeq(book, isOpenBuy)
        inv == SumSeq(openBuys, getTotalCost)
        val == SumSeq(openBuys, getCurrentValue)
    IN  [totalOrders |-> Len(openBuys),
         totalInvested |-> inv,
         totalCurrentValue |-> val,
         totalPnl |-> val - inv,
         totalPnlPercentage |-> IF inv > 0 THEN Percentage(val - inv, inv) ELSE Zero,
         totalSellProceeds |-> SumSeq(SelectSeq(book, isSell), getTotalCost),
         realizedPnl |-> realizedPnlOf(book)]

\* availableBalance > STARTING_BALANCE * 1.1
sanityCheckFails(book) == currentBalanceOf(book) * 10 > STARTING_BALANCE * PriceScale * 11

\* the checks sellOrder makes before it touches the order book
sellOrderPrecheck(book, orderId, sharesToSell) ==
    IF findIndex(book, orderId) = 0 THEN "OrderNotFound"
    ELSE IF sharesToSell > totalOpenSharesOf(book, book[findIndex(book, orderId)])
    THEN "InsufficientShares"
    ELSE "ok"

\* the order book sellOrder saves: the walk, the pruning and the new sell order
sellOrderBook(book, orderId, currentPrice, sharesToSell, t, r) ==
    LET order == book[findIndex(book, orderId)]
        walk == fifoWalk(book, 1, order, sharesToSell, 0)
    IN  Append(pruneClosed(walk.orders),
               newSellOrder(order, sharesToSell, currentPrice, walk.costBasis, t, r))

sellOrder(orderId, currentPrice, sharesToSell, t, r, writeOk) ==
    LET orderBook == getOrdersFromStorage
        status == IF ordersUnreadable THEN "TypeError"
                  ELSE sellOrderPrecheck(orderBook, orderId, sharesToSell)
        fresh == savedThenLoaded(orderBook,
                     sellOrderBook(orderBook, orderId, currentPrice, sharesToSell, t, r),
                     writeOk)
    IN  IF status # "ok"
        THEN /\ ret' = [op |-> "sellOrder", status |-> status, saved |-> FALSE]
             /\ UNCHANGED <<blob, storage, lastUpdated, orders, summary, clock, apiVars, portfolioVars>>
        ELSE /\ Len(pruneClosed(fifoWalk(orderBook, 1, orderBook[findIndex(orderBook, orderId)],
                                         sharesToSell, 0).orders)) < MaxOrders
             /\ blob' = IF writeOk THEN "orderBook" ELSE blob
             /\ storage' = fresh
             /\ lastUpdated' = IF writeOk THEN t ELSE lastUpdated
             /\ orders' = fresh
             /\ summary' = summaryOf(fresh)
             /\ clock' = t
             /\ ret' = [op |-> "sellOrder",
                        status |-> IF sanityCheckFails(fresh) THEN "SanityCheck" ELSE "ok",
                        saved |-> writeOk]
             /\ UNCHANGED <<apiVars, portfolioVars>>

(* ------------------------------ updatePnl ----------------------------- *)

\* parseFloat of a quoted price string, in price units
parseFloat(str) ==
    CASE str = "0"   -> 0
      [] str = "0.4" -> (4 * PriceScale) \div 10
      [] str = "0.6" -> (6 * PriceScale) \div 10
      [] str = "0.7" -> (7 * PriceScale) \div 10
      [] str = "1"   -> PriceScale
      [] str = "0.0" -> 0
      [] str = "1.0" -> PriceScale

\* markets.find(m => m.id === marketId || m.conditionId === marketId ||
\* m.condition_id === marketId): <<>> stands for undefined
findMarket(markets, marketId) ==
    LET hit(m) == \/ m.id = marketId
                  \/ m.conditionId = marketId
                  \/ "condition_id" \in DOMAIN m /\ m.condition_id = marketId
        hits == SelectSeq(markets, hit)
    IN  IF hits = <<>> THEN <<>> ELSE <<Head(hits)>>

\* market.outcomes.findIndex(o => o === outcome): 0 stands for -1
outcomeIndexOf(market, outcome) ==
    IF \E i \in 1..Len(market.outcomes) : market.outcomes[i] = outcome
    THEN CHOOSE i \in 1..Len(market.outcomes) :
            /\ market.outcomes[i] = outcome
            /\ \A j \in 1..(i - 1) : market.outcomes[j] # outcome
    ELSE 0

\* quoteFor without the override for resolved markets: the quoted price always
quoteForQuotedOnly(markets, order) ==
    LET found == findMarket(markets, order.marketId)
    IN  IF found = <<>> THEN <<>>
        ELSE LET market == found[1]
                 k == outcomeIndexOf(market, order.outcome)
             IN  IF k = 0 \/ k > Len(market.outcomePrices) THEN <<>>
                 ELSE IF market.outcomePrices[k] = "" THEN <<>>
                 ELSE <<parseFloat(market.outcomePrices[k])>>

\* the price updatePnl marks an order at: <<>> when it finds none
quoteFor(markets, order) ==
    LET found == findMarket(markets, order.marketId)
    IN  IF found = <<>> THEN <<>>
        ELSE LET market == found[1]
                 k == outcomeIndexOf(market, order.outcome)
             IN  IF k = 0 \/ k > Len(market.outcomePrices) THEN <<>>
                 ELSE IF market.outcomePrices[k] = "" THEN <<>>
                 ELSE IF market.isExpired /\ market.resolvedOutcome # ""
                 THEN <<IF order.outcome = market.resolvedOutcome THEN PriceScale ELSE 0>>
                 ELSE <<parseFloat(market.outcomePrices[k])>>

\* reprice adding the gain at currentPrice to the pnl the order already shows
repriceAccumulating(order, currentPrice) ==
    LET currentValue == order.shares * currentPrice
        pnl == order.pnl + currentValue - order.totalCost
    IN  [order EXCEPT !.currentPrice = currentPrice,
                      !.currentValue = currentValue,
                      !.pnl = pnl,
                      !.pnlPercentage = IF order.totalCost > 0
                                        THEN Percentage(pnl, order.totalCost) ELSE Zero]

\* the order with its snapshot fields recomputed at currentPrice
reprice(order, currentPrice) ==
    LET currentValue == order.shares * currentPrice
        pnl == currentValue - order.totalCost
    IN  [order EXCEPT !.currentPrice = currentPrice,
                      !.currentValue = currentValue,
                      !.pnl = pnl,
                      !.pnlPercentage = IF order.totalCost > 0
                                        THEN Percentage(pnl, order.totalCost) ELSE Zero]

\* does the map callback take the branch that sets updated = true
isRepriced(markets, order) == isOpenBuy(order) /\ quoteFor(markets, order) # <<>>

\* orderBook.orders.map(order => ...)
updatedOrders(markets, book) ==
    [i \in 1..Len(book) |->
        IF isRepriced(markets, book[i])
        THEN reprice(book[i], quoteFor(markets, book[i])[1])
        ELSE book[i]]

updatePnl(markets, t, writeOk) ==
    LET orderBook == getOrdersFromStorage
        updated == \E i \in 1..Len(orderBook) : isRepriced(markets, orderBook[i])
        fresh == IF updated
                 THEN savedThenLoaded(orderBook, updatedOrders(markets, orderBook), writeOk)
                 ELSE orderBook
    IN  IF ordersUnreadable
        THEN /\ ret' = [op |-> "updatePnl", status |-> "TypeError", saved |-> FALSE]
             /\ UNCHANGED <<blob, storage, lastUpdated, orders, summary, clock, apiVars, portfolioVars>>
        ELSE /\ blob' = IF updated /\ writeOk THEN "orderBook" ELSE blob
             /\ storage' = fresh
             /\ lastUpdated' = IF updated /\ writeOk THEN t ELSE lastUpdated
             /\ clock' = IF updated THEN t ELSE clock
             /\ orders' = fresh
             /\ summary' = summaryOf(fresh)
             /\ ret' = [op |-> "updatePnl", status |-> "ok", saved |-> updated /\ writeOk]
             /\ UNCHANGED <<apiVars, portfolioVars>>

(* --------------------------- loadOrders, reset ------------------------ *)

\* loadOrders(), run when the hook mounts
loadOrders ==
    LET orderBook == getOrdersFromStorage
    IN  IF ordersUnreadable
        THEN /\ ret' = [op |-> "loadOrders", status |-> "TypeError", saved |-> FALSE]
             /\ UNCHANGED <<blob, storage, lastUpdated, orders, summary, clock, apiVars, portfolioVars>>
        ELSE /\ orders' = orderBook
             /\ summary' = summaryAfterPlace(orderBook)
             /\ ret' = [op |-> "loadOrders", status |-> "ok", saved |-> FALSE]
             /\ UNCHANGED <<blob, storage, lastUpdated, clock, apiVars, portfolioVars>>

\* window.location.reload() without localStorage.clear(): the hook mounts
\* again over the stored order book
resetKeepingStorage ==
    /\ lastUpdated' = 0
    /\ orders' = getOrdersFromStorage
    /\ summary' = summaryAfterPlace(getOrdersFromStorage)
    /\ ret' = [op |-> "loadOrders", status |-> "ok", saved |-> FALSE]
    /\ UNCHANGED <<blob, storage, clock, apiVars, portfolioVars>>

\* the Reset Portfolio button: localStorage.clear(); window.location.reload(),
\* after which the hook mounts again with its initial state and loads
reset ==
    /\ blob' = "none"
    /\ storage' = <<>>
    /\ lastUpdated' = 0
    /\ orders' = <<>>
    /\ summary' = summaryAfterPlace(<<>>)
    /\ ret' = [op |-> "loadOrders", status |-> "ok", saved |-> FALSE]
    /\ portfolioItem' = NoItem
    /\ UNCHANGED <<clock, apiVars, portfolio, rendered>>

(* --------------------------- getNetPosition --------------------------- *)

\* orders.filter(order => order.marketId === marketId && order.outcome === outcome)
getOutcomeOrders(marketId, outcome) ==
    LET inst(o) == sameInstrument(o, marketId, outcome) IN SelectSeq(orders, inst)

\* getNetPosition netting sells against buys, as placeOrder's validation does
getNetPositionNetted(marketId, outcome) ==
    LET signed(o) == IF o.action = "buy" THEN o.shares ELSE -o.shares
    IN  SumSeq(getOutcomeOrders(marketId, outcome), signed)

\* the net position the hook (and MarketCard, from the orders it is handed) reports
getNetPosition(marketId, outcome) ==
    SumSeq(SelectSeq(getOutcomeOrders(marketId, outcome), isOpenBuy), getShares)

(* ------------------------------ API routes ---------------------------- *)

\* the requests the server may be handling at once
Requests == {1, 2}

idle == [route |-> "none"]

\* const totalInvested = orderBook.orders.reduce((sum, order) => sum + order.totalCost, 0)
\* const currentBalance = STARTING_BALANCE - totalInvested
apiCurrentBalanceOf(book) == STARTING_BALANCE * PriceScale - SumSeq(book, getTotalCost)

\* the validation of POST /api/orders: "ok" or the error of its 400 response
apiOrderStatus(book, marketId, outcome, action, shares, price) ==
    IF action = "buy" /\ shares * price > apiCurrentBalanceOf(book)
    THEN "InsufficientBalance"
    ELSE IF action = "sell" /\ currentPositionOf(book, marketId, outcome) < shares
    THEN "InsufficientShares"
    ELSE "ok"

apiNewOrder(marketId, outcome, action, shares, price, t, r) ==
    [id |-> <<t, r>>, marketId |-> marketId, outcome |-> outcome, action |-> action,
     shares |-> shares, price |-> price, totalCost |-> shares * price, timestamp |-> t]

\* the responses' amounts per order id: a function from ids to shares
recorded(f, id) == IF id \in DOMAIN f THEN f[id] ELSE 0

record(f, id, n) == [x \in DOMAIN f \cup {id} |-> IF x = id THEN n ELSE f[x]]

\* POST /api/orders up to the end of `await readOrders()`
apiOrdersRead(r, body) ==
    /\ req[r] = idle
    /\ req' = [req EXCEPT ![r] = [route |-> "orders", body |-> body, orderBook |-> file]]
    /\ UNCHANGED <<hookVars, portfolioVars, clock, file, acked>>

\* POST /api/orders from the validation to the response, `await writeOrders()` included
apiOrdersWrite(r, t, rnd) ==
    /\ req[r].route = "orders"
    /\ LET body == req[r].body
           orderBook == req[r].orderBook
           status == apiOrderStatus(orderBook, body[1], body[2], body[3], body[4], body[5])
           order == apiNewOrder(body[1], body[2], body[3], body[4], body[5], t, rnd)
       IN  IF status # "ok"
           THEN UNCHANGED <<file, acked, clock>>
           ELSE /\ Len(orderBook) < MaxOrders /\ t <= MaxOrders + 1
                /\ file' = Append(orderBook, order)
                /\ acked' = [acked EXCEPT !.placed = @ \cup {order.id},
                                          !.bought = IF order.action = "buy"
                                                     THEN record(@, order.id, order.shares)
                                                     ELSE @]
                /\ clock' = t
    /\ req' = [req EXCEPT ![r] = idle]
    /\ UNCHANGED <<hookVars, portfolioVars>>

\* POST /api/orders/sell up to the end of `await readOrders()`
apiSellRead(r, orderId, currentPrice) ==
    /\ req[r] = idle
    /\ req' = [req EXCEPT ![r] = [route |-> "sell", body |-> <<orderId, currentPrice>>,
                                  orderBook |-> file]]
    /\ UNCHANGED <<hookVars, portfolioVars, clock, file, acked>>

\* orderBook.orders.splice(orderIndex, 1)
splice(book, k) == [i \in 1..(Len(book) - 1) |-> IF i < k THEN book[i] ELSE book[i + 1]]

\* POST /api/orders/sell from the lookup to the response, whose saleDetails
\* report order.shares as sold
apiSellWrite(r) ==
    /\ req[r].route = "sell"
    /\ LET orderBook == req[r].orderBook
           orderIndex == findIndex(orderBook, req[r].body[1])
       IN  IF orderIndex = 0 \/ orderBook[orderIndex].action # "buy"
           THEN UNCHANGED <<file, acked>>
           ELSE LET order == orderBook[orderIndex]
                    reported == recorded(acked.soldShares, order.id) + order.shares
                IN  /\ reported <= MaxSales * order.shares
                    /\ file' = splice(orderBook, orderIndex)
                    /\ acked' = [acked EXCEPT !.sold = @ \cup {order.id},
                                              !.soldShares = record(@, order.id, reported)]
    /\ req' = [req EXCEPT ![r] = idle]
    /\ UNCHANGED <<hookVars, portfolioVars, clock>>

\* POST (pnl route) up to the end of `await readOrders()`
apiPnlRead(r, markets) ==
    /\ req[r] = idle
    /\ req' = [req EXCEPT ![r] = [route |-> "pnl", body |-> markets, orderBook |-> file]]
    /\ UNCHANGED <<hookVars, portfolioVars, clock, file, acked>>

\* marketPrices.get(`${order.marketId}-${order.outcome}`) || order.price
apiPriceFor(markets, order) ==
    LET key(m) == IF m.conditionId # "" THEN m.conditionId ELSE m.id
        quotes == {<<m, k>> \in {markets[i] : i \in 1..Len(markets)} \X (1..2) :
                     k <= Len(m.outcomes) /\ key(m) = order.marketId
                     /\ m.outcomes[k] = order.outcome}
        priceOf(q) == IF q[2] > Len(q[1].outcomePrices) \/ q[1].outcomePrices[q[2]] = ""
                      THEN 0 ELSE parseFloat(q[1].outcomePrices[q[2]])
    IN  IF quotes = {} THEN order.price
        ELSE LET quoted == priceOf(CHOOSE q \in quotes : TRUE)
             IN  IF quoted = 0 THEN order.price ELSE quoted

\* calculateOrderPnl(order, currentPrice)
calculateOrderPnl(order, currentPrice) ==
    LET currentValue == order.shares * currentPrice
        pnl == currentValue - order.totalCost
    IN  [id |-> order.id, marketId |-> order.marketId, outcome |-> order.outcome,
         action |-> order.action, shares |-> order.shares, price |-> order.price,
         totalCost |-> order.totalCost, timestamp |-> order.timestamp,
         currentPrice |-> currentPrice, currentValue |-> currentValue, pnl |-> pnl,
         pnlPercentage |-> IF order.totalCost > 0
                           THEN Percentage(pnl, order.totalCost) ELSE Zero]

\* POST (pnl route) from the repricing to the response: the book is always written
apiPnlWrite(r) ==
    /\ req[r].route = "pnl"
    /\ LET orderBook == req[r].orderBook
       IN  file' = [i \in 1..Len(orderBook) |->
                       calculateOrderPnl(orderBook[i], apiPriceFor(req[r].body, orderBook[i]))]
    /\ req' = [req EXCEPT ![r] = idle]
    /\ UNCHANGED <<hookVars, portfolioVars, clock, acked>>

(* ------------------------------ specification ------------------------- *)

(* ------------------------------ usePortfolio -------------------------- *)

\* the exact value of n / d as a reduced fraction <<numerator, denominator>>
Ratio(n, d) == LET g == GCD(Abs(n), Abs(d)) IN <<n \div g, d \div g>>

getTotalInvested(pos) == pos.total_invested
getCurrentValueOfPosition(pos) == pos.current_value

\* positions.findIndex(p => p.market_id === marketId && p.outcome === outcome),
\* 0 standing for -1
findPositionIndex(positions, marketId, outcome) ==
    LET hits == {i \in 1..Len(positions) :
                    positions[i].market_id = marketId /\ positions[i].outcome = outcome}
    IN  IF hits = {} THEN 0 ELSE CHOOSE i \in hits : \A j \in hits : i <= j

newTrade(marketId, outcome, type, shares, price, t) ==
    [id |-> t, market_id |-> marketId, outcome |-> outcome, type |-> type,
     shares |-> shares, price |-> price, total_cost |-> shares * price, timestamp |-> t]

\* the updater buyShares hands to setPortfolio, applied to prev
buyUpdater(prev, marketId, outcome, shares, price, t) ==
    LET totalCost == shares * price
        existingPositionIndex == findPositionIndex(prev.positions, marketId, outcome)
        existingPosition == prev.positions[existingPositionIndex]
        totalShares == existingPosition.shares + shares
        totalInvested == existingPosition.total_invested + totalCost
        updatedPosition ==
            [existingPosition EXCEPT
                !.shares = totalShares,
                !.avg_price = Ratio(totalInvested, totalShares),
                !.total_invested = totalInvested,
                !.current_price = price,
                !.current_value = totalShares * price,
                !.profit_loss = totalShares * price - totalInvested,
                !.profit_loss_percentage =
                    Percentage(totalShares * price - totalInvested, totalInvested)]
        newPosition ==
            [id |-> t, market_id |-> marketId, outcome |-> outcome, shares |-> shares,
             avg_price |-> <<price, 1>>, current_price |-> price,
             total_invested |-> totalCost, current_value |-> shares * price,
             profit_loss |-> 0, profit_loss_percentage |-> Zero, timestamp |-> t]
        newPositions ==
            IF existingPositionIndex > 0
            THEN [prev.positions EXCEPT ![existingPositionIndex] = updatedPosition]
            ELSE Append(prev.positions, newPosition)
        newBalance == prev.current_balance - totalCost
        newTotalInvested == prev.total_invested + totalCost
        newPortfolioValue == SumSeq(newPositions, getCurrentValueOfPosition)
        newTotalPL == newPortfolioValue - newTotalInvested
    IN  [prev EXCEPT
            !.current_balance = newBalance,
            !.total_invested = newTotalInvested,
            !.current_portfolio_value = newPortfolioValue,
            !.total_profit_loss = newTotalPL,
            !.total_profit_loss_percentage =
                IF newTotalInvested > 0 THEN Percentage(newTotalPL, newTotalInvested)
                ELSE Zero,
            !.positions = newPositions,
            !.trade_history =
                Append(@, newTrade(marketId, outcome, "BUY", shares, price, t))]

\* buyShares: the check reads the portfolio of the last render, the updater
\* runs on the state the updaters queued before it have left
buyShares(marketId, outcome, shares, price, t) ==
    IF shares * price > rendered.current_balance
    THEN UNCHANGED vars
    ELSE /\ portfolio' = buyUpdater(portfolio, marketId, outcome, shares, price, t)
         /\ UNCHANGED <<hookVars, clock, apiVars, rendered, portfolioItem>>

\* newPositions.splice(positionIndex, 1) on a copy of the positions
splicePosition(positions, k) ==
    IF k > Len(positions) THEN positions ELSE splice(positions, k)

\* newPositions[positionIndex] = pos on a copy of the positions
assignPosition(positions, k, pos) ==
    IF k <= Len(positions) THEN [positions EXCEPT ![k] = pos] ELSE Append(positions, pos)

\* the updater sellShares hands to setPortfolio, applied to prev; position and
\* positionIndex are the ones sellShares found in the portfolio of the last render
sellUpdater(prev, position, positionIndex, marketId, outcome, shares, price, t) ==
    LET totalRevenue == shares * price
        remainingShares == position.shares - shares
        soldInvestment == (shares * position.total_invested) \div position.shares
        remainingInvestment == position.total_invested - soldInvestment
        remainingPosition ==
            [position EXCEPT
                !.shares = remainingShares,
                !.total_invested = remainingInvestment,
                !.current_value = remainingShares * price,
                !.profit_loss = remainingShares * price - remainingInvestment,
                !.profit_loss_percentage =
                    IF remainingInvestment > 0
                    THEN Percentage(remainingShares * price - remainingInvestment,
                                    remainingInvestment)
                    ELSE Zero]
        newPositions ==
            IF shares = position.shares
            THEN splicePosition(prev.positions, positionIndex)
            ELSE assignPosition(prev.positions, positionIndex, remainingPosition)
        newBalance == prev.current_balance + totalRevenue
        newPortfolioValue == SumSeq(newPositions, getCurrentValueOfPosition)
        newTotalPL == newBalance + newPortfolioValue - prev.starting_balance
    IN  [prev EXCEPT
            !.current_balance = newBalance,
            !.total_invested = SumSeq(newPositions, getTotalInvested),
            !.current_portfolio_value = newPortfolioValue,
            !.total_profit_loss = newTotalPL,
            !.total_profit_loss_percentage = Percentage(newTotalPL, prev.starting_balance),
            !.positions = newPositions,
            !.trade_history =
                Append(@, newTrade(marketId, outcome, "SELL", shares, price, t))]

\* sellShares: "Position not found" and "Cannot sell more shares than owned"
\* are decided on the portfolio of the last render.  An assignment beyond the
\* end of the latest positions would leave a hole in the array; with the one
\* position the calls drawn here can hold, the index never passes the end by
\* more than one.
sellShares(marketId, outcome, shares, price, t) ==
    LET positionIndex == findPositionIndex(rendered.positions, marketId, outcome)
        position == rendered.positions[positionIndex]
    IN  IF positionIndex = 0 \/ shares > position.shares
        THEN UNCHANGED vars
        ELSE /\ positionIndex <= Len(portfolio.positions) + 1
             /\ portfolio' = sellUpdater(portfolio, position, positionIndex,
                                         marketId, outcome, shares, price, t)
             /\ UNCHANGED <<hookVars, clock, apiVars, rendered, portfolioItem>>

\* priceUpdates[position.market_id] || position.current_price
newPriceOf(priceUpdates, position) ==
    IF position.market_id \in DOMAIN priceUpdates /\ priceUpdates[position.market_id] # 0
    THEN priceUpdates[position.market_id]
    ELSE position.current_price

repricePosition(priceUpdates, position) ==
    LET newPrice == newPriceOf(priceUpdates, position)
        newValue == position.shares * newPrice
        newPL == newValue - position.total_invested
    IN  [position EXCEPT
            !.current_price = newPrice,
            !.current_value = newValue,
            !.profit_loss = newPL,
            !.profit_loss_percentage =
                IF position.total_invested > 0
                THEN Percentage(newPL, position.total_invested) ELSE Zero]

updatePositionPrices(priceUpdates) ==
    LET prev == portfolio
        newPositions == [i \in 1..Len(prev.positions) |->
                            repricePosition(priceUpdates, prev.positions[i])]
        newPortfolioValue == SumSeq(newPositions, getCurrentValueOfPosition)
        newTotalPL == prev.current_balance + newPortfolioValue - prev.starting_balance
    IN  /\ portfolio' =
              [prev EXCEPT
                  !.current_portfolio_value = newPortfolioValue,
                  !.total_profit_loss = newTotalPL,
                  !.total_profit_loss_percentage =
                      Percentage(newTotalPL, prev.starting_balance),
                  !.positions = newPositions]
        /\ UNCHANGED <<hookVars, clock, apiVars, rendered, portfolioItem>>

resetPortfolio ==
    /\ portfolio' = emptyPortfolio
    /\ portfolioItem' = emptyPortfolio
    /\ UNCHANGED <<hookVars, clock, apiVars, rendered>>

\* React renders the hook again with the state the queued updaters produced,
\* after which the effect on [portfolio] saves it; Date.now() is t from then on
renderPortfolio(t) ==
    /\ portfolio # rendered
    /\ rendered' = portfolio
    /\ portfolioItem' = portfolio
    /\ clock' = t
    /\ UNCHANGED <<hookVars, apiVars, portfolio>>

Init ==
    /\ blob = "none"
    /\ storage = <<>>
    /\ lastUpdated = 0
    /\ orders = <<>>
    /\ summary = emptySummary
    /\ ret = [op |-> "loadOrders", status |-> "ok", saved |-> FALSE]
    /\ clock = 1
    /\ file = <<>>
    /\ req = [r \in Requests |-> idle]
    /\ acked = [placed |-> {}, sold |-> {}, bought |-> <<>>, soldShares |-> <<>>]
    /\ portfolio = emptyPortfolio
    /\ rendered = emptyPortfolio
    /\ portfolioItem = NoItem

\* the market lists handed to updatePnl
market(outcomePrices, isExpired, resolvedOutcome) ==
    [id |-> "id1", conditionId |-> "m1", outcomes |-> <<"Yes", "No">>,
     outcomePrices |-> outcomePrices, isExpired |-> isExpired,
     resolvedOutcome |-> resolvedOutcome]

liveFeed == <<market(<<"0.6", "0.4">>, FALSE, "")>>

\* the market is not listed
emptyFeed == <<>>

Feeds == {liveFeed, emptyFeed}

\* an id no order carries
NoSuchId == <<0, 0>>

idsOf(book) == {book[i].id : i \in 1..Len(book)}

\* In Spec a millisecond passes between two calls that create an order, so
\* the ids `${Date.now()}-${random}` differ whatever Math.random() draws.
Place ==
    \E in \in PlaceIntents :
        placeOrder(in[1], in[2], in[3], in[4], in[5], clock + 1, 0, TRUE)

Sell ==
    \E orderId \in idsOf(storage) \cup {NoSuchId}, currentPrice \in SellPrices,
       sharesToSell \in SellVals :
        sellOrder(orderId, currentPrice, sharesToSell, clock + 1, 0, TRUE)

MarkToMarket == \E markets \in Feeds : updatePnl(markets, clock, TRUE)

Next == Place \/ Sell \/ MarkToMarket

Spec == Init /\ [][Next]_vars

(* ------------------- the server under concurrent requests ------------- *)

\* the bodies sent to POST /api/orders
ApiIntents == {in \in PlaceIntents : in[4] = Lot /\ in[5] # 7}

ApiOrdersRead == \E r \in Requests, body \in ApiIntents : apiOrdersRead(r, body)

ApiOrdersWrite == \E r \in Requests : apiOrdersWrite(r, clock + 1, 0)

ApiSellRead ==
    \E r \in Requests, orderId \in idsOf(file) \cup {NoSuchId}, currentPrice \in SellPrices :
        apiSellRead(r, orderId, currentPrice)

ApiSellWrite == \E r \in Requests : apiSellWrite(r)

\* the market lists sent to the pnl route
ApiFeeds == {liveFeed, emptyFeed}

ApiPnlRead == \E r \in Requests, markets \in ApiFeeds : apiPnlRead(r, markets)

ApiPnlWrite == \E r \in Requests : apiPnlWrite(r)

NextApi ==
    \/ ApiOrdersRead \/ ApiOrdersWrite
    \/ ApiSellRead \/ ApiSellWrite
    \/ ApiPnlRead \/ ApiPnlWrite

SpecApi == Init /\ [][NextApi]_vars

(* ---------------- calls within the same millisecond ------------------- *)

\* Date.now() at a call: the same millisecond as the last call, or a later one
Times == {clock, clock + 1}

\* a draw of Math.random() that makes the id `${t}-${r}` one no stored order carries
freshRandom(book, t) == CHOOSE r \in 0..Len(book) : <<t, r>> \notin idsOf(book)

BuyIntents == {in \in PlaceIntents : in[3] = "buy" /\ in[4] = Lot}

PlaceTied ==
    \E in \in BuyIntents, t \in Times :
        placeOrder(in[1], in[2], in[3], in[4], in[5], t, freshRandom(storage, t), TRUE)

SellTied ==
    \E orderId \in idsOf(storage), currentPrice \in SellPrices,
       sharesToSell \in SellVals \ {BigLot}, t \in Times :
        sellOrder(orderId, currentPrice, sharesToSell, t, freshRandom(storage, t), TRUE)

NextTied == PlaceTied \/ SellTied

SpecTied == Init /\ [][NextTied]_vars

(* ------------------- calls with any draw of Math.random ---------------- *)

MaxDraw == 1

\* the values Math.random().toString(36).substr(2, 9) may take
Draws == 0..MaxDraw

PlaceDrawn ==
    \E in \in BuyIntents, t \in Times, r \in Draws :
        placeOrder(in[1], in[2], in[3], in[4], in[5], t, r, TRUE)

SellDrawn ==
    \E orderId \in idsOf(storage), currentPrice \in SellPrices,
       sharesToSell \in {1, Lot}, t \in Times, r \in Draws :
        sellOrder(orderId, currentPrice, sharesToSell, t, r, TRUE)

NextDrawn == PlaceDrawn \/ SellDrawn

SpecDrawn == Init /\ [][NextDrawn]_vars

(* --------------------------- marking to market ------------------------ *)

\* the markets route's record of a market that has expired with the winner
\* declared: outcomePrices are '1.0' for the winner and '0.0' for the others
resolvedMarket(resolvedOutcome) ==
    LET outcomes == <<"Yes", "No">>
    IN  market([k \in 1..Len(outcomes) |->
                   IF outcomes[k] = resolvedOutcome THEN "1.0" ELSE "0.0"],
               TRUE, resolvedOutcome)

resolvedFeed == <<resolvedMarket("Yes")>>

\* an expired market with the winner declared, listed with its last live prices
staleResolvedFeed == <<market(<<"0.6", "0.4">>, TRUE, "No")>>

\* the market is listed without prices
unpricedFeed == <<market(<<>>, FALSE, "")>>

\* the market is listed with its first outcome only
oneOutcomeFeed == <<[market(<<"0.7">>, FALSE, "") EXCEPT !.outcomes = <<"Yes">>]>>

MarkFeeds == {liveFeed, emptyFeed, resolvedFeed, staleResolvedFeed, unpricedFeed,
              oneOutcomeFeed}

\* the clocks of SpecMark and SpecStore stop at MaxClock
MaxClock == 6

LotIntents == {in \in PlaceIntents : in[4] = Lot}

PlaceLot ==
    \E in \in LotIntents :
        placeOrder(in[1], in[2], in[3], in[4], in[5], clock + 1, 0, TRUE)

SellSome ==
    \E orderId \in idsOf(storage), currentPrice \in SellPrices,
       sharesToSell \in SellVals \ {BigLot} :
        sellOrder(orderId, currentPrice, sharesToSell, clock + 1, 0, TRUE)

\* the refresh tick: a later millisecond than the last write
MarkLater ==
    \E markets \in MarkFeeds : clock < MaxClock /\ updatePnl(markets, clock + 1, TRUE)

NextMark == PlaceLot \/ SellSome \/ MarkLater

SpecMark == Init /\ [][NextMark]_vars

(* ------------------------ a store that may refuse writes -------------- *)

\* localStorage.setItem may throw (quota exceeded, storage disabled):
\* saveOrdersToStorage catches the error and logs it
WriteOutcomes == {TRUE, FALSE}

PlaceStored ==
    \E in \in LotIntents, writeOk \in WriteOutcomes :
        clock < MaxClock
        /\ placeOrder(in[1], in[2], in[3], in[4], in[5], clock + 1, 0, writeOk)

SellStored ==
    \E orderId \in idsOf(storage) \cup {NoSuchId}, currentPrice \in SellPrices,
       sharesToSell \in SellVals \ {BigLot}, writeOk \in WriteOutcomes :
        clock < MaxClock
        /\ sellOrder(orderId, currentPrice, sharesToSell, clock + 1, 0, writeOk)

MarkStored ==
    \E markets \in Feeds, writeOk \in WriteOutcomes : updatePnl(markets, clock, writeOk)

NextStore == PlaceStored \/ SellStored \/ MarkStored

SpecStore == Init /\ [][NextStore]_vars

(* ------------------- calls with any quantity --------------------------- *)

\* shares is a number: the callers' forms do not keep it positive
AnyShares == {-Lot, 0, 1, Lot}

PlaceAnyShares ==
    \E action \in {"buy", "sell"}, shares \in AnyShares, price \in {4, 6} :
        placeOrder("m1", "Yes", action, shares, price, clock + 1, 0, TRUE)

SellAnyShares ==
    \E orderId \in idsOf(storage), currentPrice \in SellPrices, sharesToSell \in AnyShares :
        sellOrder(orderId, currentPrice, sharesToSell, clock + 1, 0, TRUE)

NextAnyShares == PlaceAnyShares \/ SellAnyShares

SpecAnyShares == Init /\ [][NextAnyShares]_vars

(* ------------------- the portfolio hook -------------------------------- *)

PortfolioLot == 500
MaxTrades == 2

\* usePortfolio mounted over an empty localStorage: the effect on [portfolio]
\* has saved the initial portfolio
InitPortfolio ==
    /\ blob = "none"
    /\ storage = <<>>
    /\ lastUpdated = 0
    /\ orders = <<>>
    /\ summary = emptySummary
    /\ ret = [op |-> "loadOrders", status |-> "ok", saved |-> FALSE]
    /\ clock = 1
    /\ file = <<>>
    /\ req = [r \in Requests |-> idle]
    /\ acked = [placed |-> {}, sold |-> {}, bought |-> <<>>, soldShares |-> <<>>]
    /\ portfolio = emptyPortfolio
    /\ rendered = emptyPortfolio
    /\ portfolioItem = emptyPortfolio

PortfolioShares == {PortfolioLot, 2 * PortfolioLot}
PortfolioPrices == {6}

BuyShares ==
    \E shares \in PortfolioShares, price \in PortfolioPrices :
        /\ Len(portfolio.trade_history) < MaxTrades
        /\ buyShares("m1", "Yes", shares, price, clock)

SellShares ==
    \E shares \in PortfolioShares, price \in PortfolioPrices :
        /\ Len(portfolio.trade_history) < MaxTrades
        /\ sellShares("m1", "Yes", shares, price, clock)

UpdatePositionPrices ==
    \E priceUpdates \in {[m \in {"m1"} |-> 4], [m \in {} |-> 0]} :
        updatePositionPrices(priceUpdates)

ResetPortfolio == resetPortfolio

RenderPortfolio == clock < MaxClock /\ renderPortfolio(clock + 1)

NextPortfolio ==
    BuyShares \/ SellShares \/ UpdatePositionPrices \/ ResetPortfolio \/ RenderPortfolio

SpecPortfolio == InitPortfolio /\ [][NextPortfolio]_vars

(* ------------------- the page over whatever is stored ------------------ *)

\* the hook has mounted over a local storage that holds no order book, and
\* its loadOrders has run
InitLoad ==
    /\ blob \in BlobKinds \ {"orderBook"}
    /\ storage = <<>>
    /\ lastUpdated = 0
    /\ orders = <<>>
    /\ summary = emptySummary
    /\ ret = [op |-> "loadOrders",
              status |-> IF ordersUnreadable THEN "TypeError" ELSE "ok",
              saved |-> FALSE]
    /\ clock = 1
    /\ file = <<>>
    /\ req = [r \in Requests |-> idle]
    /\ acked = [placed |-> {}, sold |-> {}, bought |-> <<>>, soldShares |-> <<>>]
    /\ portfolio = emptyPortfolio
    /\ rendered = emptyPortfolio
    /\ portfolioItem = NoItem

\* the page is loaded again
Reload == loadOrders

\* the Reset Portfolio button, confirmed
Reset == reset

PlaceLoaded ==
    \E in \in LotIntents :
        clock < MaxClock
        /\ placeOrder(in[1], in[2], in[3], in[4], in[5], clock + 1, 0, TRUE)

SellLoaded ==
    \E orderId \in idsOf(getOrdersFromStorage) \cup {NoSuchId}, currentPrice \in SellPrices,
       sharesToSell \in SellVals \ {BigLot} :
        clock < MaxClock
        /\ sellOrder(orderId, currentPrice, sharesToSell, clock + 1, 0, TRUE)

MarkLoaded == \E markets \in Feeds : updatePnl(markets, clock, TRUE)

NextLoad == Reload \/ Reset \/ PlaceLoaded \/ SellLoaded \/ MarkLoaded

SpecLoad == InitLoad /\ [][NextLoad]_vars

(* ================================ claims =============================== *)

\* the shares a stored order with this id holds in the order book, 0 if none does
sharesOf(book, id) ==
    IF \E k \in 1..Len(book) : book[k].id = id
    THEN (CHOOSE o \in {book[k] : k \in 1..Len(book)} : o.id = id).shares
    ELSE 0

\* the cost basis the order with this id holds in the order book, 0 if none does
costOf(book, id) ==
    IF \E k \in 1..Len(book) : book[k].id = id
    THEN (CHOOSE o \in {book[k] : k \in 1..Len(book)} : o.id = id).totalCost
    ELSE 0

\* the open buys of an instrument, as positions of the order book
openBuysAt(book, marketId, outcome) ==
    {i \in 1..Len(book) : isOpenBuy(book[i]) /\ sameInstrument(book[i], marketId, outcome)}

RECURSIVE SumOver(_, _)
SumOver(S, f) ==
    IF S = {} THEN 0 ELSE LET x == CHOOSE y \in S : TRUE IN f[x] + SumOver(S \ {x}, f)

\* the open shares of an instrument, summed from the stored ledger
openSharesInStorage(marketId, outcome) ==
    SumOver(openBuysAt(storage, marketId, outcome), [i \in 1..Len(storage) |-> storage[i].shares])

Instruments == {<<"m1", "Yes">>, <<"m1", "No">>}

\* a step of sellOrder that got past its pre-check
SellStep == ret'.op = "sellOrder" /\ ret'.status \in {"ok", "SanityCheck"} /\ storage' # storage

(* C1: no overdraft.  A placeOrder(buy) whose cost shares * price exceeds    *)
(* availableBalance = 10000 - (totalCost of open buys) + (pnl of sells) is   *)
(* rejected with the insufficient-balance error and stores nothing, and      *)
(* availableBalance is never negative.                                       *)
C1_NoOverdraft ==
    /\ [](currentBalanceOf(storage) >= 0)
    /\ [][\A in \in PlaceIntents :
            ( /\ in[3] = "buy"
              /\ in[4] * in[5] > currentBalanceOf(storage)
              /\ placeOrder(in[1], in[2], in[3], in[4], in[5], clock + 1, 0, TRUE) )
            => (ret'.status = "InsufficientBalance" /\ storage' = storage)]_vars

\* a buy has been rejected for its cost while other buys are open
C1_Witness ==
    /\ ret = [op |-> "placeOrder", status |-> "InsufficientBalance", saved |-> FALSE]
    /\ Len(storage) > 0
    /\ currentBalanceOf(storage) < BigLot * 4

(* C2: FIFO.  A sell takes from the earliest open buy of the instrument     *)
(* first: a buy is decremented only if every open buy of the instrument     *)
(* with an earlier timestamp, or with the same timestamp and an earlier     *)
(* place in the ledger, has been consumed in full by this sell.             *)
C2_Fifo ==
    [][SellStep =>
        \A i, j \in 1..Len(storage) :
            ( /\ isOpenBuy(storage[i]) /\ isOpenBuy(storage[j])
              /\ sameInstrument(storage[j], storage[i].marketId, storage[i].outcome)
              /\ \/ storage[i].timestamp < storage[j].timestamp
                 \/ storage[i].timestamp = storage[j].timestamp /\ i < j
              /\ sharesOf(storage', storage[j].id) < storage[j].shares )
            => sharesOf(storage', storage[i].id) = 0]_vars

\* two buys placed in the same millisecond at 0.40 and 0.70, then 150 shares sold:
\* the first is gone, the second (id random part 1) keeps 50 shares
C2_Witness ==
    /\ ret.op = "sellOrder"
    /\ Len(storage) = 2
    /\ isOpenBuy(storage[1]) /\ storage[1].id[2] = 1 /\ storage[1].price = 7
    /\ storage[1].shares = Lot \div 2
    /\ isSell(storage[2]) /\ storage[2].shares = (3 * Lot) \div 2
    /\ storage[2].pnl = storage[2].totalCost - (Lot * 4 + (Lot \div 2) * 7)

(* C3: a placeOrder or sellOrder call that ends in an error leaves the       *)
(* stored ledger as it was.                                                  *)
C3_FailedCallLeavesLedger ==
    [][(ret'.op \in {"placeOrder", "sellOrder"} /\ ret'.status # "ok")
        => storage' = storage]_vars

(* C4: sellOrder fails with the insufficient-shares error when sharesToSell  *)
(* exceeds the open shares of the referenced order's instrument and          *)
(* succeeds when it does not; a failure leaves the ledger unchanged.         *)
C4_SellSucceedsIffEnoughShares ==
    [][\A orderId \in idsOf(storage), currentPrice \in SellPrices, sharesToSell \in SellVals :
        sellOrder(orderId, currentPrice, sharesToSell, clock + 1, 0, TRUE)
        => IF sharesToSell > totalOpenSharesOf(storage, storage[findIndex(storage, orderId)])
           THEN ret'.status = "InsufficientShares" /\ storage' = storage
           ELSE ret'.status = "ok"]_vars

(* C5: no buy order in the ledger has negative shares or negative           *)
(* totalCost, and the walk of a sell leaves every buy it takes from at       *)
(* shares >= 0 and totalCost >= 0, with totalCost = 0 where shares = 0.      *)
C5_NoNegativeBuy ==
    /\ [](\A i \in 1..Len(storage) :
            isBuy(storage[i]) => storage[i].shares >= 0 /\ storage[i].totalCost >= 0)
    /\ [][\A orderId \in idsOf(storage), sharesToSell \in SellVals :
            ( /\ ret'.op = "sellOrder"
              /\ sellOrderPrecheck(storage, orderId, sharesToSell) = "ok" )
            => LET walked == fifoWalk(storage, 1, storage[findIndex(storage, orderId)],
                                      sharesToSell, 0).orders
               IN  \A k \in 1..Len(walked) :
                       isBuy(walked[k]) =>
                           /\ walked[k].shares >= 0
                           /\ walked[k].totalCost >= 0
                           /\ walked[k].shares = 0 => walked[k].totalCost = 0]_vars

\* a sell has taken exactly the shares a buy held: the buy is gone from the ledger
C5_Witness ==
    /\ ret = [op |-> "sellOrder", status |-> "ok", saved |-> TRUE]
    /\ Len(storage) = 1
    /\ isSell(storage[1]) /\ storage[1].shares = Lot

(* C6: for every instrument, the net position getNetPosition reports equals  *)
(* the sum of shares over the open buy orders of the instrument in the       *)
(* stored ledger.                                                            *)
C6_NetPositionIsOpenShares ==
    \A inst \in Instruments :
        getNetPosition(inst[1], inst[2]) = openSharesInStorage(inst[1], inst[2])

\* a sell has taken part of a buy: the position is what the buy still holds
C6_Witness ==
    /\ ret.op = "sellOrder"
    /\ \E i \in 1..Len(storage) : isSell(storage[i]) /\ storage[i].outcome = "Yes"
    /\ getNetPosition("m1", "Yes") = Lot - 1

(* C7: the realizedPnl of the published summary equals the sum of pnl over   *)
(* the sell orders of the ledger after every operation, and changes only     *)
(* when a sell order is created.                                             *)
C7_RealizedPnlIsSumOfSells ==
    /\ [](summary.realizedPnl = realizedPnlOf(storage))
    /\ [][summary'.realizedPnl # summary.realizedPnl
            => (ret'.op = "sellOrder" /\ Len(SelectSeq(storage', isSell))
                                            = Len(SelectSeq(storage, isSell)) + 1)]_vars

(* C8: a sell of n shares at price p takes from each buy it consumes the     *)
(* proportional cost totalCost / shares * taken (an exact quotient), the     *)
(* cost basis is the sum of those costs, the proceeds are n * p and the new  *)
(* sell order's pnl is proceeds - cost basis.  Buys of 100 at 0.40 and 100   *)
(* at 0.70, 150 sold at 0.60: cost basis 75, proceeds 90, pnl 15, and the    *)
(* second buy keeps 50 shares at cost 35.                                    *)
C8_SellAccounting ==
    [][\A orderId \in idsOf(storage), p \in SellPrices, n \in SellVals :
        (sellOrder(orderId, p, n, clock + 1, 0, TRUE) /\ SellStep) =>
            LET new == storage'[Len(storage')]
                S == openBuysAt(storage, new.marketId, new.outcome)
                taken == [i \in 1..Len(storage) |->
                            storage[i].shares - sharesOf(storage', storage[i].id)]
                cost == [i \in 1..Len(storage) |->
                            (storage[i].totalCost * taken[i]) \div storage[i].shares]
            IN  /\ \A i \in S :
                    /\ (storage[i].totalCost * taken[i]) % storage[i].shares = 0
                    /\ costOf(storage', storage[i].id) = storage[i].totalCost - cost[i]
                /\ SumOver(S, taken) = n
                /\ new.action = "sell" /\ new.shares = n /\ new.price = p
                /\ new.totalCost = n * p
                /\ new.pnl = n * p - SumOver(S, cost)
                /\ ( /\ Len(storage) = 2 /\ S = {1, 2} /\ n = 150 /\ p = 6
                     /\ storage[1].shares = 100 /\ storage[1].totalCost = 400
                     /\ storage[2].shares = 100 /\ storage[2].totalCost = 700 )
                   => ( /\ SumOver(S, cost) = 750 /\ new.totalCost = 900 /\ new.pnl = 150
                        /\ sharesOf(storage', storage[1].id) = 0
                        /\ sharesOf(storage', storage[2].id) = 50
                        /\ costOf(storage', storage[2].id) = 350 )]_vars

\* the ledger after 100 at 0.40 and 100 at 0.70 were bought and 150 sold at 0.60
C8_Witness ==
    /\ ret = [op |-> "sellOrder", status |-> "ok", saved |-> TRUE]
    /\ Len(storage) = 2
    /\ isBuy(storage[1]) /\ storage[1].shares = 50 /\ storage[1].totalCost = 350
    /\ isSell(storage[2]) /\ storage[2].shares = 150 /\ storage[2].price = 6
    /\ storage[2].totalCost = 900 /\ storage[2].pnl = 150

(* C9: when the pre-check of sellOrder passes, the walk allocates exactly    *)
(* sharesToSell: the remaining-to-sell counter is 0 at its end and the open  *)
(* shares of the instrument decrease by sharesToSell.                        *)
C9_WalkAllocatesAll ==
    [][\A orderId \in idsOf(storage), p \in SellPrices, n \in SellVals :
        ( /\ sellOrder(orderId, p, n, clock + 1, 0, TRUE)
          /\ sellOrderPrecheck(storage, orderId, n) = "ok" ) =>
            LET order == storage[findIndex(storage, orderId)]
            IN  /\ fifoWalk(storage, 1, order, n, 0).sharesLeftToSell = 0
                /\ SumOver(openBuysAt(storage', order.marketId, order.outcome),
                           [i \in 1..Len(storage') |-> storage'[i].shares])
                     = openSharesInStorage(order.marketId, order.outcome) - n]_vars

\* a sell that spans two buys while a buy of the other outcome lies between them
C9_Witness ==
    /\ ret = [op |-> "sellOrder", status |-> "ok", saved |-> TRUE]
    /\ Len(storage) = 3
    /\ isOpenBuy(storage[1]) /\ storage[1].outcome = "No" /\ storage[1].shares = Lot
    /\ isOpenBuy(storage[2]) /\ storage[2].outcome = "Yes" /\ storage[2].shares = Lot \div 2
    /\ isSell(storage[3]) /\ storage[3].shares = (3 * Lot) \div 2

(* C10: concurrent read-modify-write operations on one ledger are           *)
(* serialized, so that no update is lost: every order the server has         *)
(* acknowledged as placed and not as sold is in the stored ledger, and no    *)
(* order acknowledged as sold is.                                            *)
C10_NoLostUpdate ==
    /\ \A id \in acked.placed \ acked.sold : id \in idsOf(file)
    /\ \A id \in acked.sold : id \notin idsOf(file)

(* C11: two concurrent sell requests never double-consume the same buy       *)
(* inventory: the shares the successful sell responses report as sold of a   *)
(* buy order never exceed the shares that buy was accepted with.             *)
C11_NoDoubleConsume ==
    \A id \in DOMAIN acked.soldShares :
        acked.soldShares[id] <= recorded(acked.bought, id)

\* what a call updatePnl(markets) on this order book stores and publishes
afterUpdatePnl(markets, book) ==
    LET fresh == IF \E i \in 1..Len(book) : isRepriced(markets, book[i])
                 THEN updatedOrders(markets, book) ELSE book
    IN  [orders |-> fresh, summary |-> summaryOf(fresh)]

\* the snapshot fields of an order
snapshotOf(o) == <<o.currentPrice, o.currentValue, o.pnl, o.pnlPercentage>>

(* C12: markToMarket is idempotent under unchanged quotes.  After a call     *)
(* updatePnl(markets), a second call with the same markets stores orders     *)
(* with the same snapshot fields and publishes the same summary as the       *)
(* first.                                                                    *)
C12_MarkIdempotent ==
    [][\A markets \in MarkFeeds :
        updatePnl(markets, clock + 1, TRUE) =>
            LET first == afterUpdatePnl(markets, storage)
                second == afterUpdatePnl(markets, storage')
            IN  /\ storage' = first.orders /\ summary' = first.summary
                /\ second.summary = first.summary
                /\ Len(second.orders) = Len(first.orders)
                /\ \A i \in 1..Len(first.orders) :
                       snapshotOf(second.orders[i]) = snapshotOf(first.orders[i])]_vars

\* a call that repriced two open buys bought at 0.40 and at 0.70 to 0.60
C12_Witness ==
    /\ ret = [op |-> "updatePnl", status |-> "ok", saved |-> TRUE]
    /\ \E i, j \in 1..Len(storage) :
          /\ isOpenBuy(storage[i]) /\ storage[i].price = 4 /\ storage[i].pnl > 0
          /\ isOpenBuy(storage[j]) /\ storage[j].price = 7 /\ storage[j].pnl < 0
    /\ summary.totalPnl = summaryOf(storage).totalPnl /\ summary.totalPnl # 0

ledgerFieldsOf(o) == <<o.id, o.action, o.shares, o.price, o.totalCost>>

\* marking turned the order book before into the order book after: no entry
\* created or removed, only snapshot fields of open buys changed
onlyOpenBuysRepriced(before, after) ==
    /\ Len(after) = Len(before)
    /\ \A i \in 1..Len(before) :
          /\ ledgerFieldsOf(after[i]) = ledgerFieldsOf(before[i])
          /\ ~isOpenBuy(before[i]) => after[i] = before[i]

(* C14: markToMarket changes nothing except the snapshot fields of open buy  *)
(* orders.  The pnl route of the server, applied to the order book it read,  *)
(* creates and removes no entry, leaves id, action, shares, price and        *)
(* totalCost of every order unchanged and leaves every sell order and every  *)
(* closed buy entirely unchanged.                                            *)
C14_MarkFrame ==
    [][\A r \in Requests :
        apiPnlWrite(r) => onlyOpenBuysRepriced(req[r].orderBook, file')]_vars

(* C14, for the hook: updatePnl creates and removes no entry, leaves id,     *)
(* action, shares, price and totalCost of every order unchanged and leaves   *)
(* every sell order and every closed buy entirely unchanged.                 *)
C14_HookMarkFrame ==
    [][ret'.op = "updatePnl" => onlyOpenBuysRepriced(storage, storage')]_vars

\* the input has no price for the order: its market is not listed, or its
\* outcome is not listed for the market, or no price is listed for the outcome
noQuoteFor(markets, order) ==
    \A k \in 1..Len(markets) :
        \/ markets[k].id # order.marketId /\ markets[k].conditionId # order.marketId
        \/ \A j \in 1..Len(markets[k].outcomes) :
              \/ markets[k].outcomes[j] # order.outcome
              \/ j > Len(markets[k].outcomePrices)
              \/ markets[k].outcomePrices[j] = ""

(* C15: markToMarket never fails on a missing quote.  When the pnl route of  *)
(* the server finds no price for an open buy order in its input, it answers  *)
(* with success and the order's currentPrice, currentValue, pnl and          *)
(* pnlPercentage keep the values they had.                                   *)
C15_MissingQuoteKeepsSnapshot ==
    [][\A r \in Requests :
        apiPnlWrite(r) =>
            LET read == req[r].orderBook
            IN  /\ Len(file') = Len(read)
                /\ \A i \in 1..Len(read) :
                      ( /\ isOpenBuy(read[i])
                        /\ "currentPrice" \in DOMAIN read[i]
                        /\ noQuoteFor(req[r].body, read[i]) )
                      => snapshotOf(file'[i]) = snapshotOf(read[i])]_vars

(* C15, for the hook: when updatePnl finds no price for an open buy order    *)
(* in its input, the call succeeds and the order's currentPrice,             *)
(* currentValue, pnl and pnlPercentage keep the values they had.             *)
C15_HookMissingQuoteKeepsSnapshot ==
    [][\A markets \in MarkFeeds :
        updatePnl(markets, clock + 1, TRUE) =>
            /\ ret'.status = "ok"
            /\ Len(storage') = Len(storage)
            /\ \A i \in 1..Len(storage) :
                  (isOpenBuy(storage[i]) /\ noQuoteFor(markets, storage[i]))
                  => storage'[i] = storage[i]]_vars

(* C16: updatePnl writes the ledger to the store, and advances lastUpdated,  *)
(* only if a field of at least one order changed: a call whose quotes equal  *)
(* the snapshot of every open buy, or that matches no order, writes          *)
(* nothing.                                                                  *)
C16_MarkWritesOnlyChanges ==
    [][(ret'.op = "updatePnl" /\ (ret'.saved \/ lastUpdated' # lastUpdated))
        => storage' # storage]_vars

(* C16, the part that holds: a call of updatePnl that finds a price for no   *)
(* open buy order writes nothing.                                            *)
C16_UnmatchedMarkWritesNothing ==
    [][\A markets \in MarkFeeds :
        ( /\ updatePnl(markets, clock + 1, TRUE)
          /\ \A i \in 1..Len(storage) :
                isOpenBuy(storage[i]) => noQuoteFor(markets, storage[i]) )
        => (~ret'.saved /\ lastUpdated' = lastUpdated /\ storage' = storage)]_vars

(* C17: a successful placeOrder(buy, shares, price) appends exactly one      *)
(* order at the end of the ledger, with action buy, totalCost = shares *     *)
(* price, currentPrice = price, currentValue = shares * price and pnl = 0,   *)
(* and leaves every order already there unchanged; placing the same order    *)
(* again adds a second row, the rows are never merged.                       *)
C17_BuyAppendsOneOrder ==
    [][\A in \in PlaceIntents :
        ( /\ in[3] = "buy"
          /\ placeOrder(in[1], in[2], in[3], in[4], in[5], clock + 1, 0, TRUE)
          /\ ret'.status = "ok" )
        => /\ Len(storage') = Len(storage) + 1
           /\ SubSeq(storage', 1, Len(storage)) = storage
           /\ LET new == storage'[Len(storage')]
              IN  /\ new.marketId = in[1] /\ new.outcome = in[2]
                  /\ new.action = "buy" /\ new.shares = in[4] /\ new.price = in[5]
                  /\ new.totalCost = in[4] * in[5]
                  /\ new.currentPrice = in[5]
                  /\ new.currentValue = in[4] * in[5]
                  /\ new.pnl = 0]_vars

\* the same buy was placed twice: two rows of 100 shares each, with different ids
C17_Witness ==
    /\ ret = [op |-> "placeOrder", status |-> "ok", saved |-> TRUE]
    /\ Len(storage) = 2
    /\ isOpenBuy(storage[1]) /\ isOpenBuy(storage[2])
    /\ storage[1].id # storage[2].id
    /\ storage[1].shares = Lot /\ storage[2].shares = Lot
    /\ [storage[1] EXCEPT !.id = <<0, 0>>, !.timestamp = 0]
         = [storage[2] EXCEPT !.id = <<0, 0>>, !.timestamp = 0]

sellsAt(book, marketId, outcome) ==
    {i \in 1..Len(book) : isSell(book[i]) /\ sameInstrument(book[i], marketId, outcome)}

\* the shares bought less the shares sold of an instrument, over the rows of
\* the stored ledger
netOfSellsInStorage(marketId, outcome) ==
    LET shares == [i \in 1..Len(storage) |-> storage[i].shares]
        buys == {i \in 1..Len(storage) :
                    isBuy(storage[i]) /\ sameInstrument(storage[i], marketId, outcome)}
    IN  SumOver(buys, shares) - SumOver(sellsAt(storage, marketId, outcome), shares)

C19_PlaceSellLeavesBuys ==
    [][\A in \in PlaceIntents :
        ( /\ in[3] = "sell"
          /\ placeOrder(in[1], in[2], in[3], in[4], in[5], clock + 1, 0, TRUE)
          /\ ret'.status = "ok" )
        => /\ Len(storage') = Len(storage) + 1
           /\ LET new == storage'[Len(storage')]
              IN  /\ new.action = "sell" /\ new.marketId = in[1] /\ new.outcome = in[2]
                  /\ new.shares = in[4] /\ new.price = in[5]
                  /\ new.totalCost = in[4] * in[5]
           /\ \A i \in 1..Len(storage) :
                 /\ storage'[i].id = storage[i].id
                 /\ isBuy(storage[i]) =>
                       /\ storage'[i].shares = storage[i].shares
                       /\ storage'[i].totalCost = storage[i].totalCost]_vars

\* placeOrder has recorded a sell of 100 shares at 0.60 next to the buy of the
\* same 100 shares, which is as it was placed
C19_Witness ==
    /\ ret = [op |-> "placeOrder", status |-> "ok", saved |-> TRUE]
    /\ Len(storage) = 2
    /\ isOpenBuy(storage[1]) /\ storage[1].outcome = "Yes"
    /\ storage[1].shares = Lot /\ storage[1].totalCost = Lot * storage[1].price
    /\ isSell(storage[2]) /\ storage[2].outcome = "Yes"
    /\ storage[2].shares = Lot /\ storage[2].totalCost = Lot * 6

\* the ids no stored order carries: ids never given and ids of orders that
\* have left the ledger
missingIds == {<<t, 0>> : t \in 0..clock} \ idsOf(storage)

(* C20: sellOrder called with an order id that no order of the stored        *)
(* ledger carries fails with the order-not-found error and leaves the        *)
(* ledger unchanged.                                                         *)
C20_SellUnknownOrder ==
    [][\A orderId \in missingIds, currentPrice \in SellPrices, sharesToSell \in SellVals :
        sellOrder(orderId, currentPrice, sharesToSell, clock + 1, 0, TRUE)
        => /\ ret' = [op |-> "sellOrder", status |-> "OrderNotFound", saved |-> FALSE]
           /\ storage' = storage /\ lastUpdated' = lastUpdated]_vars

\* sellOrder has refused an id that is not in a ledger holding orders
C20_Witness ==
    /\ ret = [op |-> "sellOrder", status |-> "OrderNotFound", saved |-> FALSE]
    /\ Len(storage) > 0
    /\ lastUpdated > 0

(* C20, for the server: the sell route answers a request whose order id is   *)
(* not in the order book it read with 404 and writes nothing.                *)
C20_ApiSellUnknownOrder ==
    [][\A r \in Requests :
        (apiSellWrite(r) /\ req[r].body[1] \notin idsOf(req[r].orderBook))
        => (file' = file /\ acked' = acked)]_vars

\* the sell orders of an order book
sellsOf(book) == SelectSeq(book, isSell)

(* C21: every successful sell appends exactly one new sell order to the      *)
(* ledger, with shares = the shares sold, price = currentPrice and           *)
(* totalCost = the proceeds.  For the sell route of the server: a request    *)
(* answered with success leaves the order book it read one sell order        *)
(* longer, the new order last.                                               *)
C21_SellAppendsSellOrder ==
    [][\A r \in Requests :
        (apiSellWrite(r) /\ acked' # acked)
        => LET read == req[r].orderBook
               sold == read[findIndex(read, req[r].body[1])]
           IN  /\ Len(sellsOf(file')) = Len(sellsOf(read)) + 1
               /\ LET new == file'[Len(file')]
                  IN  /\ new.action = "sell"
                      /\ new.shares = sold.shares
                      /\ new.price = req[r].body[2]
                      /\ new.totalCost = sold.shares * req[r].body[2]]_vars

(* C21, for the hook: a successful sellOrder appends exactly one sell order  *)
(* with shares = sharesToSell, price = currentPrice and totalCost =          *)
(* sharesToSell * currentPrice, and no later operation changes a sell        *)
(* order of the ledger.                                                      *)
C21_HookSellAppendsLockedOrder ==
    /\ [][\A orderId \in idsOf(storage), p \in SellPrices, n \in SellVals :
            (sellOrder(orderId, p, n, clock + 1, 0, TRUE) /\ ret'.status = "ok")
            => /\ Len(sellsOf(storage')) = Len(sellsOf(storage)) + 1
               /\ LET new == storage'[Len(storage')]
                  IN  /\ new.action = "sell" /\ new.shares = n /\ new.price = p
                      /\ new.totalCost = n * p]_vars
    /\ [][\A i \in 1..Len(storage) :
            isSell(storage[i]) => \E j \in 1..Len(storage') : storage'[j] = storage[i]]_vars

\* the Summary Projector: the aggregates of a ledger, summed over its rows
projectedSummary(book) ==
    LET rows == 1..Len(book)
        openBuys == {i \in rows : isOpenBuy(book[i])}
        sells == {i \in rows : isSell(book[i])}
        inv == SumOver(openBuys, [i \in rows |-> book[i].totalCost])
        val == SumOver(openBuys, [i \in rows |-> book[i].currentValue])
    IN  [totalInvested |-> inv,
         totalCurrentValue |-> val,
         totalPnl |-> val - inv,
         totalSellProceeds |-> SumOver(sells, [i \in rows |-> book[i].totalCost]),
         realizedPnl |-> SumOver(sells, [i \in rows |-> book[i].pnl])]

(* C22: after every mutating operation the published summary is the Summary  *)
(* Projector applied to the stored ledger: totalInvested and                 *)
(* totalCurrentValue are the sums of totalCost and currentValue over the     *)
(* open buys, totalPnl is their difference, totalSellProceeds and            *)
(* realizedPnl are the sums of totalCost and pnl over the sell orders.       *)
C22_SummaryIsProjection ==
    LET projected == projectedSummary(storage)
    IN  /\ summary.totalInvested = projected.totalInvested
        /\ summary.totalCurrentValue = projected.totalCurrentValue
        /\ summary.totalPnl = projected.totalPnl
        /\ summary.totalSellProceeds = projected.totalSellProceeds
        /\ summary.realizedPnl = projected.realizedPnl

(* C22, the part that holds: the summary published by sellOrder and by       *)
(* updatePnl is the projection of the stored ledger, and so are the          *)
(* totalInvested, totalCurrentValue and totalPnl published by placeOrder.    *)
C22_SummaryIsProjectionButSells ==
    LET projected == projectedSummary(storage)
    IN  /\ summary.totalInvested = projected.totalInvested
        /\ summary.totalCurrentValue = projected.totalCurrentValue
        /\ summary.totalPnl = projected.totalPnl
        /\ (ret.op \in {"sellOrder", "updatePnl"} /\ ret.status # "OrderNotFound"
             /\ ret.status # "InsufficientShares")
            => /\ summary.totalSellProceeds = projected.totalSellProceeds
               /\ summary.realizedPnl = projected.realizedPnl

(* C23: when the write to the store fails during place, sell or              *)
(* markToMarket, the operation reports failure to its caller: a call of      *)
(* placeOrder or sellOrder that returns success has persisted its order,     *)
(* and a call of updatePnl that returns success has persisted what it        *)
(* repriced.                                                                 *)
C23_SuccessMeansPersisted ==
    /\ [][(ret'.op \in {"placeOrder", "sellOrder"} /\ ret'.status = "ok")
            => ret'.saved]_vars
    /\ [][\A markets \in Feeds :
            ( /\ updatePnl(markets, clock, FALSE)
              /\ \E i \in 1..Len(storage) : isRepriced(markets, storage[i]) )
            => ret'.status # "ok"]_vars

\* what each operation of the hook does on an account that has never traded:
\* loadOrders shows no orders, placeOrder validates against an empty ledger
\* and stores the one order it creates, sellOrder finds no order, updatePnl
\* has nothing to reprice
asOnFreshAccount ==
    /\ loadOrders => (ret'.status = "ok" /\ orders' = <<>>)
    /\ \A in \in LotIntents :
          placeOrder(in[1], in[2], in[3], in[4], in[5], clock + 1, 0, TRUE)
          => /\ ret'.status = placeOrderStatus(<<>>, in[1], in[2], in[3], in[4], in[5])
             /\ ret'.status = "ok"
                  => getOrdersFromStorage' =
                         <<newOrder(in[1], in[2], in[3], in[4], in[5], clock + 1, 0)>>
    /\ \A orderId \in {NoSuchId}, sharesToSell \in SellVals \ {BigLot} :
          sellOrder(orderId, 6, sharesToSell, clock + 1, 0, TRUE)
          => ret'.status = "OrderNotFound"
    /\ \A markets \in Feeds :
          updatePnl(markets, clock, TRUE) => (ret'.status = "ok" /\ orders' = <<>>)

(* C24: loading the ledger never throws.  If no blob is stored, or the       *)
(* stored blob is unreadable or corrupt, load returns an empty ledger and    *)
(* every operation that starts from it behaves as on a fresh account.        *)
C24_LoadYieldsEmptyLedger ==
    [][(blob # "orderBook") => (asOnFreshAccount)]_vars

(* C24, the part that holds: when nothing is stored, or what is stored is    *)
(* not JSON, every operation of the hook behaves as on a fresh account.      *)
C24_AbsentOrUnparseableIsEmpty ==
    [][(blob \in {"none", "garbage"}) => (asOnFreshAccount)]_vars

(* C25: from any reachable state, reset leaves a ledger with no orders, so   *)
(* that availableBalance = 10000, realizedPnl = 0 and every net position     *)
(* is 0.                                                                     *)
C25_ResetClearsLedger ==
    [][reset =>
        /\ getOrdersFromStorage' = <<>>
        /\ ~ordersUnreadable'
        /\ orders' = <<>>
        /\ currentBalanceOf(getOrdersFromStorage') = STARTING_BALANCE * PriceScale
        /\ realizedPnlOf(getOrdersFromStorage') = 0
        /\ summary'.realizedPnl = 0
        /\ \A inst \in Instruments : getNetPosition(inst[1], inst[2])' = 0]_vars

\* the account traded, and was reset afterwards
C25_Witness ==
    /\ clock > 1
    /\ blob = "none"
    /\ ret.op = "loadOrders"
    /\ orders = <<>>

(* C26: across any sequence of operations, a given buy order's shares and    *)
(* totalCost never increase: they change only through FIFO consumption by a  *)
(* sell, and are never changed by placeOrder or markToMarket.                *)
C26_BuyOnlyShrinks ==
    [][\A i \in 1..Len(storage) :
          isBuy(storage[i]) =>
            LET id == storage[i].id
            IN  /\ 0 <= sharesOf(storage', id)
                /\ sharesOf(storage', id) <= storage[i].shares
                /\ costOf(storage', id) <= storage[i].totalCost
                /\ ret'.op \in {"placeOrder", "updatePnl"}
                     => /\ sharesOf(storage', id) = storage[i].shares
                        /\ costOf(storage', id) = storage[i].totalCost]_vars

\* a sell has taken one share of a buy of a lot, and the rest is still held
C26_Witness ==
    /\ ret.op = "sellOrder"
    /\ ret.status = "ok"
    /\ \E i \in 1..Len(storage) : isOpenBuy(storage[i]) /\ storage[i].shares = Lot - 1

\* no two orders of the order book carry the same id
idsDistinct(book) ==
    \A i, j \in 1..Len(book) : book[i].id = book[j].id => i = j

(* C27: order ids are unique and never reused.  In every reachable ledger    *)
(* no two orders share an id, so that an order placeOrder or sellOrder       *)
(* creates has not received the id of an order the ledger holds.             *)
C27_IdsUnique == idsDistinct(storage)

(* C27, the part that holds: when every call of placeOrder and sellOrder     *)
(* happens in a later millisecond than the one before, no two orders of the  *)
(* ledger share an id and a new order never receives the id of an order the  *)
(* ledger holds.                                                             *)
C27_LaterCallsDistinctIds ==
    /\ [](idsDistinct(storage))
    /\ [][(ret'.saved /\ ret'.op \in {"placeOrder", "sellOrder"})
            => /\ storage'[Len(storage')].id \notin idsOf(storage)
               /\ storage'[Len(storage')].id[1] > clock]_vars

\* the shares of an instrument the order book accounts for: those its open
\* buys still hold and those its sell orders record as sold
sharesHeldOrSold(book, marketId, outcome) ==
    LET shares == [i \in 1..Len(book) |-> book[i].shares]
    IN  SumOver(openBuysAt(book, marketId, outcome), shares)
          + SumOver(sellsAt(book, marketId, outcome), shares)

\* the shares of an instrument this step buys: those of the buy order it stores
sharesBoughtNow(marketId, outcome) ==
    LET last == storage'[Len(storage')]
    IN  IF ret'.op = "placeOrder" /\ ret'.saved /\ isBuy(last)
            /\ sameInstrument(last, marketId, outcome)
        THEN last.shares
        ELSE 0

\* a step of placeOrder that stores a sell order
PlaceSellStep ==
    ret'.op = "placeOrder" /\ ret'.saved /\ isSell(storage'[Len(storage')])

(* C28: share conservation.  For every instrument and every state reachable  *)
(* by place and sell operations, the shares of its open buy orders plus the  *)
(* shares of its sell orders equal the total shares ever bought for it: the  *)
(* sum starts at 0 and every step raises it by exactly the shares the step   *)
(* buys.                                                                     *)
C28_ShareConservation ==
    [][\A inst \in Instruments :
          sharesHeldOrSold(storage', inst[1], inst[2])
            = sharesHeldOrSold(storage, inst[1], inst[2])
                + sharesBoughtNow(inst[1], inst[2])]_vars

(* C28, the part that holds: every step other than a placeOrder that stores  *)
(* a sell order raises the shares held or sold of each instrument by exactly *)
(* the shares the step buys.                                                 *)
C28_ConservedButPlaceSell ==
    [][~PlaceSellStep =>
        \A inst \in Instruments :
          sharesHeldOrSold(storage', inst[1], inst[2])
            = sharesHeldOrSold(storage, inst[1], inst[2])
                + sharesBoughtNow(inst[1], inst[2])]_vars

\* what a step does to availableBalance, given the order it stores: a buy
\* lowers it by the buy's cost, a sell raises it by the sell's proceeds, any
\* other step leaves it as it is
cashMoves ==
    LET last == storage'[Len(storage')]
        stored == ret'.saved /\ ret'.op \in {"placeOrder", "sellOrder"}
    IN  currentBalanceOf(storage') =
            currentBalanceOf(storage)
              + (IF stored /\ isSell(last) THEN last.totalCost
                 ELSE IF stored /\ isBuy(last) THEN -last.totalCost
                 ELSE 0)

(* C29: cash equivalence.  availableBalance = 10000 - totalInvested +         *)
(* realizedPnl equals 10000 minus the cost of every buy placed plus the      *)
(* proceeds of every sell recorded: a buy of cost c lowers it by exactly c   *)
(* (100 shares at 0.40 from 10000 gives 9960), a sell with proceeds P raises *)
(* it by exactly P, and nothing else moves it.                               *)
C29_CashEquivalence ==
    /\ [](storage = <<newOrder("m1", "Yes", "buy", 100, 4, 2, 0)>>
            => currentBalanceOf(storage) = 9960 * PriceScale)
    /\ [][cashMoves]_vars

(* C29, the part that holds: every step other than a placeOrder that stores  *)
(* a sell order moves availableBalance by the cost of the buy or the         *)
(* proceeds of the sell it stores, and by nothing otherwise.                 *)
C29_CashMovesButPlaceSell ==
    /\ [](storage = <<newOrder("m1", "Yes", "buy", 100, 4, 2, 0)>>
            => currentBalanceOf(storage) = 9960 * PriceScale)
    /\ [][~PlaceSellStep => cashMoves]_vars

(* C30: in every reachable stored ledger availableBalance (10000 -           *)
(* totalInvested + realizedPnl) is at most 1.1 times the starting balance,   *)
(* that is, the sanity check inside sellOrder never fires; and if it does    *)
(* fire, the sell it rejects has not been persisted.                         *)
C30_SanityCheckNeverFires ==
    /\ [](10 * currentBalanceOf(storage) <= 11 * STARTING_BALANCE * PriceScale)
    /\ [](ret.status # "SanityCheck")
    /\ [][ret'.status = "SanityCheck" => storage' = storage]_vars

\* the snapshot fields of the order agree with its shares and its cost
snapshotConsistent(o) ==
    /\ o.currentValue = o.shares * o.currentPrice
    /\ o.pnl = o.currentValue - o.totalCost

(* C31: snapshot consistency.  In every reachable state each open buy order  *)
(* satisfies currentValue = shares * currentPrice and pnl = currentValue -   *)
(* totalCost, including immediately after a partial sell has reduced its     *)
(* shares and totalCost, so that the totalCurrentValue sellOrder publishes   *)
(* is the value of the remaining shares.                                     *)
C31_SnapshotConsistent ==
    /\ \A i \in 1..Len(storage) : isOpenBuy(storage[i]) => snapshotConsistent(storage[i])
    /\ (ret.op = "sellOrder" /\ ret.saved)
        => summary.totalCurrentValue =
             SumOver({i \in 1..Len(storage) : isOpenBuy(storage[i])},
                     [i \in 1..Len(storage) |-> storage[i].shares * storage[i].currentPrice])

(* C31, the part that holds: a buy order is consistent when placeOrder       *)
(* stores it, and every open buy that updatePnl reprices is consistent in    *)
(* the ledger updatePnl stores.                                              *)
C31_SnapshotConsistentWhenWritten ==
    /\ [][(ret'.op = "placeOrder" /\ ret'.saved)
            => snapshotConsistent(storage'[Len(storage')])]_vars
    /\ [][\A markets \in MarkFeeds :
            updatePnl(markets, clock + 1, TRUE)
            => \A i \in 1..Len(storage) :
                 isRepriced(markets, storage[i]) => snapshotConsistent(storage'[i])]_vars

(* C32: no order with non-positive quantity ever enters the ledger:          *)
(* placeOrder and sellOrder called with shares <= 0 (or sharesToSell <= 0)   *)
(* append nothing, so every order placeOrder or sellOrder stores has         *)
(* shares > 0 when it is created.                                            *)
C32_NoNonPositiveOrder ==
    [][(ret'.op \in {"placeOrder", "sellOrder"} /\ storage' # storage)
        => storage'[Len(storage')].shares > 0]_vars

(* C32, the part that holds: when placeOrder and sellOrder are called with   *)
(* positive quantities, every order of the ledger has shares > 0.            *)
C32_PositiveCallsPositiveOrders ==
    \A i \in 1..Len(storage) : storage[i].shares > 0

\* the ids of the sell orders of the order book
sellIds(book) == {book[i].id : i \in {k \in 1..Len(book) : isSell(book[k])}}

(* C33: only buy orders can be sold.  sellOrder called with the id of an     *)
(* existing sell order is rejected and leaves the ledger unchanged: it never *)
(* consumes buy inventory or appends a sell on the strength of a sell        *)
(* order's id.                                                               *)
C33_OnlyBuysSold ==
    [][\A orderId \in sellIds(storage), sharesToSell \in SellVals :
          sellOrder(orderId, 6, sharesToSell, clock + 1, 0, TRUE)
          => (ret'.status # "ok" /\ storage' = storage)]_vars

(* C33, for the server: the sell route answers a request that names a sell   *)
(* order of the order book it read without writing anything.                 *)
C33_ApiOnlyBuysSold ==
    [][\A r \in Requests :
        (apiSellWrite(r) /\ req[r].body[1] \in sellIds(req[r].orderBook))
        => (file' = file /\ acked' = acked)]_vars

\* the buys a caller may ask for
buyIntents == {in \in PlaceIntents : in[3] = "buy"}

\* the server's validation and the hook's validation give the same verdict on
\* every buy against this order book
agreeOnBuys(book) ==
    \A in \in buyIntents :
        (apiOrderStatus(book, in[1], in[2], in[3], in[4], in[5]) = "ok")
          <=> (placeOrderStatus(book, in[1], in[2], in[3], in[4], in[5]) = "ok")

(* C34: the server order route and the hook agree on buy validation: for     *)
(* every ledger (including ledgers containing sell orders) and every buy     *)
(* intent, POST /api/orders accepts the buy exactly when the hook's          *)
(* placeOrder accepts it, both using availableBalance = startingBalance -    *)
(* (totalCost of open buys) + (pnl of sells).                                *)
C34_RoutesAgreeOnBuys ==
    /\ agreeOnBuys(storage)
    /\ apiCurrentBalanceOf(storage) = currentBalanceOf(storage)

(* C34, the part that holds: on a ledger that holds open buy orders only,    *)
(* the two validations compute the same balance and give the same verdict.   *)
C34_RoutesAgreeWithoutSells ==
    (\A i \in 1..Len(storage) : isOpenBuy(storage[i]))
        => /\ agreeOnBuys(storage)
           /\ apiCurrentBalanceOf(storage) = currentBalanceOf(storage)

\* the ids of the orders of the order book, in ledger order
idSeq(book) == [i \in 1..Len(book) |-> book[i].id]

\* the order book without its last order
allButLast(book) == SubSeq(book, 1, Len(book) - 1)

(* C35: after the hook's sellOrder the stored ledger contains no buy order   *)
(* with shares = 0, the relative order of all surviving orders is unchanged  *)
(* and the new sell order is last; hence array order remains the             *)
(* chronological order after any sequence of place and sell operations.      *)
C35_SellKeepsLedgerOrder ==
    /\ [][SellStep =>
            LET survives(id) == id \in idsOf(allButLast(storage'))
            IN  /\ \A i \in 1..Len(storage') :
                      ~(isBuy(storage'[i]) /\ storage'[i].shares = 0)
                /\ isSell(storage'[Len(storage')])
                /\ storage'[Len(storage')].id \notin idsOf(storage)
                /\ idSeq(allButLast(storage')) = SelectSeq(idSeq(storage), survives)
                /\ \A i \in 1..Len(storage) :
                      ~survives(storage[i].id)
                        => (isBuy(storage[i]) /\ sharesOf(storage', storage[i].id) = 0)]_vars
    /\ [](\A i, j \in 1..Len(storage) :
            i < j => storage[i].timestamp <= storage[j].timestamp)

\* three buys, then 150 shares of 'Yes' sold: the first 'Yes' buy is pruned,
\* the 'No' buy and the second 'Yes' buy keep their places, the sell is last
C35_Witness ==
    /\ ret.op = "sellOrder"
    /\ Len(storage) = 3
    /\ isOpenBuy(storage[1]) /\ storage[1].outcome = "No"
    /\ isOpenBuy(storage[2]) /\ storage[2].outcome = "Yes"
    /\ storage[2].shares = 2 * Lot - (3 * Lot) \div 2
    /\ storage[1].timestamp < storage[2].timestamp
    /\ isSell(storage[3]) /\ storage[3].shares = (3 * Lot) \div 2

(* C36: in the portfolio hook current_balance is never negative after any    *)
(* sequence of buyShares and sellShares calls, including two buyShares calls *)
(* issued against the same rendered portfolio before the state update is     *)
(* applied.                                                                  *)
C36_PortfolioBalanceNeverNegative == portfolio.current_balance >= 0

(* C36, the part that holds: a call made when the rendered portfolio is the  *)
(* latest state never takes a balance that is not negative below 0.          *)
C36_FreshSnapshotNoOverdraft ==
    [][(rendered = portfolio /\ portfolio.current_balance >= 0)
        => portfolio'.current_balance >= 0]_vars

=============================================================================
